---- MODULE Spec2Model ----
(***************************************************************************)
(* A model of the rule engine of src/main.py: the tokenizer, the           *)
(* recursive-descent parser, the attribute catalog with its validation,    *)
(* the function registry and the tree-walking evaluator.                   *)
(*                                                                         *)
(* Python values are records [t, s, n]: t is the Python type, s the text   *)
(* of a str, n the number of an int (or the tenths of a float).  A rule    *)
(* string is the sequence of its lexical pieces: a word is a maximal run   *)
(* of characters other than whitespace, quotes and parentheses, so no two  *)
(* words are adjacent; a quoted piece carries the text between its quotes. *)
(* An exception is a record [kind, msg, origin]: msg is the sequence of    *)
(* the parts of str(e), origin the exception as it was raised, before any  *)
(* handler of evaluate_rule caught and wrapped it.                         *)
(***************************************************************************)
EXTENDS Integers, Sequences, FiniteSets, TLC

VARIABLES attribute_catalog, function_registry, rule_string, typed, ast, data_record, result

vars == <<attribute_catalog, function_registry, rule_string, typed, ast, data_record, result>>

(***************************************************************************)
(* Bounds of the model.                                                    *)
(***************************************************************************)
\* the number of chunks of text a rule string is made of
MaxChunks == 5
\* the number of LogicalOperator nodes of a tree built by hand
MaxOps == 1
\* integer constraints and integer values range over -1 .. MaxBound + 1
MaxBound == 2

(***************************************************************************)
(* Python values.                                                          *)
(***************************************************************************)
Str(s) == [t |-> "str", s |-> s, n |-> 0]

PyInt(n) == [t |-> "int", s |-> "", n |-> n]

\* a float, held as its number of tenths
PyFloat(tenths) == [t |-> "float", s |-> "", n |-> tenths]

PyNone == [t |-> "NoneType", s |-> "", n |-> 0]

\* a datetime.date, as today() returns it
Date == [t |-> "date", s |-> "", n |-> 0]

List(items) == [t |-> "list", s |-> "", n |-> 0, items |-> items]

IsNumber(v) == v.t \in {"int", "float"}

\* the value of a number in tenths
Tenths(v) == IF v.t = "int" THEN 10 * v.n ELSE v.n

(***************************************************************************)
(* The strings of the model, in Python's order of str, and what str.lower, *)
(* str.upper and the substring test of `in` do on them.                    *)
(***************************************************************************)
StrOrder ==
  <<
    "", "(", "((", ")", ")(", ",", ",(", "-1", "0", "1", "120", "121", "2",
    "2.5", "2.5(", "20", "3", "30", "30(", "35", "5", "5(", "<", "<(", "=",
    "=(", ">", ">(", ">=", ">=(", "ACTIVE", "AGE", "AGE(", "ALEXANDER",
    "AND", "AND(", "Alexander", "BOB", "Bob", "CLOSED", "DEPARTMENT",
    "DEPARTMENT(", "IN", "IN(", "LENGTH", "LENGTH(", "NAME", "NAME(", "OR",
    "OR(", "PENDING", "SALES", "STATUS", "STATUS(", "SUPPORT", "Sales",
    "Support", "X", "active", "age", "age(", "alexander", "and", "and(",
    "bob", "closed", "department", "department(", "in", "in(", "length",
    "length(", "name", "name(", "or", "or(", "pending", "sales", "status",
    "status(", "support", "x"
  >>

StrUniverse == {StrOrder[i] : i \in 1..Len(StrOrder)}

StrRank == [s \in StrUniverse |-> CHOOSE i \in 1..Len(StrOrder) : StrOrder[i] = s]

\* a < b on two str
StrLess(a, b) == StrRank[a] < StrRank[b]

LowerChanged ==
  {
    <<"ACTIVE", "active">>, <<"AGE", "age">>, <<"AGE(", "age(">>,
    <<"ALEXANDER", "alexander">>, <<"AND", "and">>, <<"AND(", "and(">>,
    <<"Alexander", "alexander">>, <<"BOB", "bob">>, <<"Bob", "bob">>,
    <<"CLOSED", "closed">>, <<"DEPARTMENT", "department">>,
    <<"DEPARTMENT(", "department(">>, <<"IN", "in">>, <<"IN(", "in(">>,
    <<"LENGTH", "length">>, <<"LENGTH(", "length(">>, <<"NAME", "name">>,
    <<"NAME(", "name(">>, <<"OR", "or">>, <<"OR(", "or(">>,
    <<"PENDING", "pending">>, <<"SALES", "sales">>, <<"STATUS", "status">>,
    <<"STATUS(", "status(">>, <<"SUPPORT", "support">>,
    <<"Sales", "sales">>, <<"Support", "support">>, <<"X", "x">>
  }

UpperChanged ==
  {
    <<"Alexander", "ALEXANDER">>, <<"Bob", "BOB">>, <<"Sales", "SALES">>,
    <<"Support", "SUPPORT">>, <<"active", "ACTIVE">>, <<"age", "AGE">>,
    <<"age(", "AGE(">>, <<"alexander", "ALEXANDER">>, <<"and", "AND">>,
    <<"and(", "AND(">>, <<"bob", "BOB">>, <<"closed", "CLOSED">>,
    <<"department", "DEPARTMENT">>, <<"department(", "DEPARTMENT(">>,
    <<"in", "IN">>, <<"in(", "IN(">>, <<"length", "LENGTH">>,
    <<"length(", "LENGTH(">>, <<"name", "NAME">>, <<"name(", "NAME(">>,
    <<"or", "OR">>, <<"or(", "OR(">>, <<"pending", "PENDING">>,
    <<"sales", "SALES">>, <<"status", "STATUS">>, <<"status(", "STATUS(">>,
    <<"support", "SUPPORT">>, <<"x", "X">>
  }

ProperSubstring ==
  {
    <<"(", "((">>, <<"(", ")(">>, <<")", ")(">>, <<"(", ",(">>,
    <<",", ",(">>, <<"1", "-1">>, <<"0", "120">>, <<"1", "120">>,
    <<"2", "120">>, <<"20", "120">>, <<"1", "121">>, <<"2", "121">>,
    <<"2", "2.5">>, <<"5", "2.5">>, <<"(", "2.5(">>, <<"2", "2.5(">>,
    <<"2.5", "2.5(">>, <<"5", "2.5(">>, <<"5(", "2.5(">>, <<"0", "20">>,
    <<"2", "20">>, <<"0", "30">>, <<"3", "30">>, <<"(", "30(">>,
    <<"0", "30(">>, <<"3", "30(">>, <<"30", "30(">>, <<"3", "35">>,
    <<"5", "35">>, <<"(", "5(">>, <<"5", "5(">>, <<"(", "<(">>,
    <<"<", "<(">>, <<"(", "=(">>, <<"=", "=(">>, <<"(", ">(">>,
    <<">", ">(">>, <<"=", ">=">>, <<">", ">=">>, <<"(", ">=(">>,
    <<"=", ">=(">>, <<"=(", ">=(">>, <<">", ">=(">>, <<">=", ">=(">>,
    <<"(", "AGE(">>, <<"AGE", "AGE(">>, <<"AND", "ALEXANDER">>,
    <<"X", "ALEXANDER">>, <<"(", "AND(">>, <<"AND", "AND(">>,
    <<"and", "Alexander">>, <<"x", "Alexander">>, <<"(", "DEPARTMENT(">>,
    <<"DEPARTMENT", "DEPARTMENT(">>, <<"(", "IN(">>, <<"IN", "IN(">>,
    <<"(", "LENGTH(">>, <<"LENGTH", "LENGTH(">>, <<"(", "NAME(">>,
    <<"NAME", "NAME(">>, <<"(", "OR(">>, <<"OR", "OR(">>,
    <<"IN", "PENDING">>, <<"(", "STATUS(">>, <<"STATUS", "STATUS(">>,
    <<"OR", "SUPPORT">>, <<"or", "Support">>, <<"(", "age(">>,
    <<"age", "age(">>, <<"and", "alexander">>, <<"x", "alexander">>,
    <<"(", "and(">>, <<"and", "and(">>, <<"(", "department(">>,
    <<"department", "department(">>, <<"(", "in(">>, <<"in", "in(">>,
    <<"(", "length(">>, <<"length", "length(">>, <<"(", "name(">>,
    <<"name", "name(">>, <<"(", "or(">>, <<"or", "or(">>,
    <<"in", "pending">>, <<"(", "status(">>, <<"status", "status(">>,
    <<"or", "support">>
  }


\* str.lower and str.upper
Lower(s) == IF \E p \in LowerChanged : p[1] = s THEN (CHOOSE p \in LowerChanged : p[1] = s)[2] ELSE s

Upper(s) == IF \E p \in UpperChanged : p[1] = s THEN (CHOOSE p \in UpperChanged : p[1] = s)[2] ELSE s

\* a in b on two str
Substring(a, b) == a = "" \/ a = b \/ <<a, b>> \in ProperSubstring

\* the strings holding a "(" : each is a string of the model followed by "("
ParenStrings == {w \o "(" : w \in StrUniverse} \cap StrUniverse

\* s[:-1] of a string holding a "("
DropLast(s) == CHOOSE w \in StrUniverse : w \o "(" = s

\* the strings holding a "."
DottedStrings == {"2.5", "2.5("}

\* int(s) and float(s) on the strings that do not raise ValueError
IntLiteral ==
  ("-1" :> -1) @@ ("0" :> 0) @@ ("1" :> 1) @@ ("2" :> 2) @@ ("3" :> 3) @@ ("5" :> 5) @@
  ("20" :> 20) @@ ("30" :> 30) @@ ("35" :> 35) @@ ("120" :> 120) @@ ("121" :> 121)

FloatLiteral == ("2.5" :> 25)

\* ", ".join(repr(x) for x in items[i:]), counted from 1
RECURSIVE JoinRepr(_, _)
JoinRepr(items, i) ==
  IF i > Len(items) THEN ""
  ELSE (IF items[i].t = "str" THEN "'" \o items[i].s \o "'" ELSE ToString(items[i].n))
       \o (IF i < Len(items) THEN ", " ELSE "") \o JoinRepr(items, i + 1)

\* str(v), of a str, an int, a float that is not negative, a list of str
\* and int, a bool and None
PyStr(v) ==
  IF v.t = "str" THEN v.s
  ELSE IF v.t = "int" THEN ToString(v.n)
  ELSE IF v.t = "float" THEN ToString(v.n \div 10) \o "." \o ToString(v.n % 10)
  ELSE IF v.t = "list" THEN "[" \o JoinRepr(v.items, 1) \o "]"
  ELSE IF v.t = "bool" THEN (IF v.n = 1 THEN "True" ELSE "False")
  ELSE "None"

(***************************************************************************)
(* Exceptions, and the results of the operations.                          *)
(***************************************************************************)
NoError == [kind |-> "None", msg |-> <<>>, origin |-> [kind |-> "None", msg |-> <<>>]]

\* raise kind(msg); no handler of evaluate_rule has caught it yet, so it
\* is its own origin
Raise(kind, msg) == [kind |-> kind, msg |-> msg, origin |-> [kind |-> kind, msg |-> msg]]

(***************************************************************************)
(* Operator enum and Node dataclass.                                       *)
(***************************************************************************)
\* RuleEngine.operators: the token of an operator to the Operator member
operators ==
  ("AND" :> "AND") @@ ("OR" :> "OR") @@ (">" :> "GT") @@ ("<" :> "LT") @@ ("=" :> "EQ") @@
  ("!=" :> "NE") @@ (">=" :> "GTE") @@ ("<=" :> "LTE") @@ ("IN" :> "IN") @@
  ("NOT IN" :> "NOT_IN")

\* token in self.operators
IsOperatorToken(token) == token.t = "str" /\ token.s \in DOMAIN operators

\* None where a Node is expected
NoNode == [type |-> "NoneType"]

\* Node(type=COMPARISON, field=, operator=, value=); a field left out is None
ComparisonNode(field, operator, value) ==
  [type |-> "comparison", value |-> value, left |-> NoNode, right |-> NoNode,
   operator |-> operator, field |-> field, function |-> "None", args |-> <<>>]

OperatorNode(operator, left, right) ==
  [type |-> "operator", value |-> PyNone, left |-> left, right |-> right,
   operator |-> operator, field |-> "None", function |-> "None", args |-> <<>>]

FunctionNode(function, args) ==
  [type |-> "function", value |-> PyNone, left |-> NoNode, right |-> NoNode,
   operator |-> "None", field |-> "None", function |-> function, args |-> args]

\* isinstance(x, Node), for an argument of a function call
IsNode(x) == "type" \in DOMAIN x

(***************************************************************************)
(* The text of a rule string.                                              *)
(***************************************************************************)
W(s) == [k |-> "word", s |-> s]

DQ(s) == [k |-> "dquote", s |-> s]

SQ(s) == [k |-> "squote", s |-> s]

LP == [k |-> "lparen", s |-> "("]

RP == [k |-> "rparen", s |-> ")"]

SP == [k |-> "space", s |-> " "]

(***************************************************************************)
(* tokenize                                                                *)
(***************************************************************************)
\* re.findall(pattern, rule_string): the words, the quoted strings and the
\* parentheses in order; whitespace matches no alternative
FindAll(text) == SelectSeq(text, LAMBDA p : p.k # "space")

\* the word or parenthesis `token` that is no quoted string and is not
\* followed by "(" : an operator keyword, a comparison symbol, a number or
\* the token itself
plain_token(token) ==
  IF Upper(token.s) \in {"AND", "OR", "IN", "NOT IN"} THEN Str(Upper(token.s))
  ELSE IF token.s \in {">", "<", "=", "!=", ">=", "<="} THEN Str(token.s)
  ELSE IF token.s \in DottedStrings
       THEN IF token.s \in DOMAIN FloatLiteral THEN PyFloat(FloatLiteral[token.s]) ELSE Str(token.s)
       ELSE IF token.s \in DOMAIN IntLiteral THEN PyInt(IntLiteral[token.s]) ELSE Str(token.s)

\* the while loop of tokenize from index i (counted from 0)
RECURSIVE process_tokens(_, _)
process_tokens(tokens, i) ==
  IF ~(i < Len(tokens)) THEN <<>>
  ELSE LET token == tokens[i + 1] IN
       IF token.k \in {"dquote", "squote"}
       THEN <<Str(token.s)>> \o process_tokens(tokens, i + 1)
       ELSE IF i + 1 < Len(tokens) /\ tokens[i + 2].k = "lparen"
       THEN <<Str(token.s \o "(")>> \o process_tokens(tokens, i + 2)
       ELSE <<plain_token(token)>> \o process_tokens(tokens, i + 1)

tokenize(text) ==
  IF text = <<>>
  THEN [ok |-> FALSE, tokens |-> <<>>, err |-> Raise("RuleValidationError", <<"Empty rule string">>)]
  ELSE [ok |-> TRUE, tokens |-> process_tokens(FindAll(text), 0), err |-> NoError]

(***************************************************************************)
(* validate_rule_syntax                                                    *)
(***************************************************************************)
\* tokens.index(token), counted from 0
IndexOf(tokens, token) == (CHOOSE j \in 1..Len(tokens) : tokens[j] = token /\ \A k \in 1..(j - 1) : tokens[k] # token) - 1

\* the for loop from the i-th token (counted from 1) with `stack` open
\* parentheses on the stack, then the check after it; the error raised, or NoError
RECURSIVE syntax_scan(_, _, _)
syntax_scan(tokens, i, stack) ==
  IF i > Len(tokens)
  THEN IF stack > 0 THEN Raise("RuleValidationError", <<"Unmatched opening parenthesis">>) ELSE NoError
  ELSE LET token == tokens[i] IN
       IF token = Str("(") THEN syntax_scan(tokens, i + 1, stack + 1)
       ELSE IF token = Str(")")
       THEN IF stack = 0
            THEN Raise("RuleValidationError", <<"Unmatched closing parenthesis">>)
            ELSE syntax_scan(tokens, i + 1, stack - 1)
       ELSE IF IsOperatorToken(token) /\ ~(Len(tokens) > IndexOf(tokens, token) + 1)
       THEN Raise("RuleValidationError", <<"Operator ", token.s, " missing right operand">>)
       ELSE syntax_scan(tokens, i + 1, stack)

validate_rule_syntax(tokens) == syntax_scan(tokens, 1, 0)

(***************************************************************************)
(* parse_function and parse_expression: [ok, node, pos, err]               *)
(***************************************************************************)
ParseError(e) == [ok |-> FALSE, node |-> NoNode, pos |-> 0, err |-> e]

Parsed(node, pos) == [ok |-> TRUE, node |-> node, pos |-> pos, err |-> NoError]

\* isinstance(token, str) and '(' in token
IsCallToken(token) == token.t = "str" /\ token.s \in ParenStrings

RECURSIVE parse_function(_, _, _), parse_args(_, _, _, _)
\* the while loop of parse_function at current_pos with `args` collected:
\* [ok, args, pos, err]
parse_args(registry, tokens, current_pos, args) ==
  IF ~(current_pos < Len(tokens) /\ tokens[current_pos + 1] # Str(")"))
  THEN [ok |-> TRUE, args |-> args, pos |-> current_pos, err |-> NoError]
  ELSE IF tokens[current_pos + 1] = Str(",")
  THEN parse_args(registry, tokens, current_pos + 1, args)
  ELSE IF IsCallToken(tokens[current_pos + 1])
  THEN LET r == parse_function(registry, tokens, current_pos) IN
       IF ~r.ok THEN [ok |-> FALSE, args |-> args, pos |-> current_pos, err |-> r.err]
       ELSE parse_args(registry, tokens, r.pos, Append(args, r.node))
  ELSE parse_args(registry, tokens, current_pos + 1, Append(args, tokens[current_pos + 1]))

parse_function(registry, tokens, pos) ==
  LET func_name == DropLast(tokens[pos + 1].s) IN
  IF func_name \notin DOMAIN registry
  THEN ParseError(Raise("RuleValidationError", <<"Unknown function: ", func_name>>))
  ELSE LET r == parse_args(registry, tokens, pos + 1, <<>>) IN
       IF ~r.ok THEN ParseError(r.err)
       ELSE Parsed(FunctionNode(func_name, r.args), r.pos + 1)

RECURSIVE parse_expression(_, _, _, _)
parse_expression(catalog, registry, tokens, pos) ==
  IF pos >= Len(tokens)
  THEN ParseError(Raise("RuleValidationError", <<"Unexpected end of expression">>))
  ELSE LET token == tokens[pos + 1] IN
       IF token = Str("(")
       THEN LET r == parse_expression(catalog, registry, tokens, pos + 1) IN
            IF ~r.ok THEN r
            ELSE IF r.pos >= Len(tokens) \/ tokens[r.pos + 1] # Str(")")
            THEN ParseError(Raise("RuleValidationError", <<"Missing closing parenthesis">>))
            ELSE Parsed(r.node, r.pos + 1)
       ELSE IF IsCallToken(token)
       THEN parse_function(registry, tokens, pos)
       ELSE IF pos + 2 < Len(tokens) /\ IsOperatorToken(tokens[pos + 2])
       THEN IF ~(token.t = "str" /\ token.s \in DOMAIN catalog)
            THEN ParseError(Raise("AttributeValidationError", <<"Unknown attribute: ", PyStr(token)>>))
            ELSE Parsed(ComparisonNode(token.s, operators[tokens[pos + 2].s], tokens[pos + 3]), pos + 3)
       ELSE ParseError(Raise("RuleValidationError",
                             <<"Invalid expression at position ", ToString(pos), ": ", PyStr(token)>>))

(***************************************************************************)
(* create_rule: [ok, node, err]                                            *)
(***************************************************************************)
Created(node) == [ok |-> TRUE, node |-> node, err |-> NoError]

CreateError(e) == [ok |-> FALSE, node |-> NoNode, err |-> e]

\* create_rule that rejects a rule with tokens left after its expressions
create_rule_all_consumed(catalog, registry, text) ==
  LET t == tokenize(text) IN
  IF ~t.ok THEN CreateError(t.err)
  ELSE LET tokens == t.tokens
           syntax == validate_rule_syntax(tokens)
           leftover == CreateError(Raise("RuleValidationError", <<"Unexpected tokens after expression">>))
       IN
       IF syntax # NoError THEN CreateError(syntax)
       ELSE LET first == parse_expression(catalog, registry, tokens, 0) IN
            IF ~first.ok THEN CreateError(first.err)
            ELSE IF first.pos < Len(tokens) /\ tokens[first.pos + 1] \in {Str("AND"), Str("OR")}
            THEN LET second == parse_expression(catalog, registry, tokens, first.pos + 1) IN
                 IF ~second.ok THEN CreateError(second.err)
                 ELSE IF second.pos < Len(tokens) THEN leftover
                 ELSE Created(OperatorNode(operators[tokens[first.pos + 1].s], first.node, second.node))
            ELSE IF first.pos < Len(tokens) THEN leftover
            ELSE Created(first.node)

create_rule(catalog, registry, text) ==
  LET t == tokenize(text) IN
  IF ~t.ok THEN CreateError(t.err)
  ELSE LET tokens == t.tokens
           syntax == validate_rule_syntax(tokens)
       IN
       IF syntax # NoError THEN CreateError(syntax)
       ELSE LET first == parse_expression(catalog, registry, tokens, 0) IN
            IF ~first.ok THEN CreateError(first.err)
            ELSE IF first.pos < Len(tokens) /\ tokens[first.pos + 1] \in {Str("AND"), Str("OR")}
            THEN LET second == parse_expression(catalog, registry, tokens, first.pos + 1) IN
                 IF ~second.ok THEN CreateError(second.err)
                 ELSE Created(OperatorNode(operators[tokens[first.pos + 1].s], first.node, second.node))
            ELSE Created(first.node)

(***************************************************************************)
(* Python's comparisons, on the values of the model: [ok, val, err].       *)
(***************************************************************************)
Bool(b) == [t |-> "bool", s |-> "", n |-> IF b THEN 1 ELSE 0]

\* bool(v)
Truthy(v) ==
  IF v.t \in {"bool", "int", "float"} THEN v.n # 0
  ELSE IF v.t = "str" THEN v.s # ""
  ELSE IF v.t = "list" THEN v.items # <<>>
  ELSE v.t # "NoneType"

Returned(val) == [ok |-> TRUE, val |-> val, err |-> NoError]

Raised(e) == [ok |-> FALSE, val |-> FALSE, err |-> e]

\* a == b
PyEq(a, b) ==
  IF IsNumber(a) /\ IsNumber(b) THEN Tenths(a) = Tenths(b) ELSE a = b

\* a < b: numbers by value, str by Python's order, TypeError otherwise
PyLess(a, b) ==
  IF IsNumber(a) /\ IsNumber(b) THEN Returned(Tenths(a) < Tenths(b))
  ELSE IF a.t = "str" /\ b.t = "str" THEN Returned(StrLess(a.s, b.s))
  ELSE Raised(Raise("TypeError", <<"'<' not supported between instances of '", a.t, "' and '", b.t, "'">>))

\* a <= b
PyLessEq(a, b) ==
  LET r == PyLess(b, a) IN IF r.ok THEN Returned(~r.val) ELSE r

\* PyIn with a list that holds every value
PyIn_any_member(value, container) ==
  IF container.t = "list" THEN Returned(TRUE)
  ELSE IF container.t = "str"
  THEN IF value.t = "str" THEN Returned(Substring(value.s, container.s))
       ELSE Raised(Raise("TypeError", <<"'in <string>' requires string as left operand, not ", value.t>>))
  ELSE Raised(Raise("TypeError", <<"argument of type '", container.t, "' is not iterable">>))

\* value in container
PyIn(value, container) ==
  IF container.t = "list"
  THEN Returned(\E i \in 1..Len(container.items) : PyEq(container.items[i], value))
  ELSE IF container.t = "str"
  THEN IF value.t = "str" THEN Returned(Substring(value.s, container.s))
       ELSE Raised(Raise("TypeError", <<"'in <string>' requires string as left operand, not ", value.t>>))
  ELSE Raised(Raise("TypeError", <<"argument of type '", container.t, "' is not iterable">>))

(***************************************************************************)
(* validate_attribute: [ok, val, err], val the value returned.             *)
(* An AttributeDefinition is [name, data_type, constraints, required];     *)
(* constraints is the dict in insertion order, a sequence of [key, value]. *)
(***************************************************************************)
AttributeDefinition(name, data_type, constraints, required) ==
  [name |-> name, data_type |-> data_type, constraints |-> constraints, required |-> required]

\* re.match(pattern, text) is not None, for the patterns of the model
PatternMatches(pattern, text) ==
  IF pattern = "^S" THEN text \in {"Sales", "Support", "SALES", "STATUS", "STATUS(", "SUPPORT"}
  ELSE FALSE

\* definition.data_type(value): int(value) or str(value)
convert(data_type, value) ==
  IF data_type = "int"
  THEN IF value.t = "str" /\ value.s \in DOMAIN IntLiteral THEN Returned(PyInt(IntLiteral[value.s]))
       ELSE IF value.t = "float" THEN Returned(PyInt(value.n \div 10))
       ELSE Raised(Raise("ValueError", <<"invalid literal for int()">>))
  ELSE Returned(Str(PyStr(value)))

\* isinstance(value, definition.data_type)
IsInstance(value, data_type) ==
  IF data_type = "int" THEN value.t \in {"int", "bool"} ELSE value.t = data_type

\* below_minimum with the bound itself below the minimum
below_minimum_exclusive(value, bound) == PyLessEq(value, bound)

\* value < constraint_value, of a min constraint
below_minimum(value, bound) == PyLess(value, bound)

\* value > constraint_value, of a max constraint
above_maximum(value, bound) == PyLess(bound, value)

\* the constraint [key, value] on `value`: the error raised, or NoError
check_constraint(name, c, value) ==
  IF c.key = "min"
  THEN LET r == below_minimum(value, c.value) IN
       IF ~r.ok THEN r.err
       ELSE IF r.val
       THEN Raise("AttributeValidationError", <<"Value for ", name, " below minimum: ", PyStr(c.value)>>)
       ELSE NoError
  ELSE IF c.key = "max"
  THEN LET r == above_maximum(value, c.value) IN
       IF ~r.ok THEN r.err
       ELSE IF r.val
       THEN Raise("AttributeValidationError", <<"Value for ", name, " above maximum: ", PyStr(c.value)>>)
       ELSE NoError
  ELSE IF c.key = "pattern"
  THEN IF ~PatternMatches(c.value.s, PyStr(value))
       THEN Raise("AttributeValidationError", <<"Value for ", name, " does not match pattern: ", c.value.s>>)
       ELSE NoError
  ELSE IF c.key = "enum"
  THEN LET r == PyIn(value, c.value) IN
       IF ~r.ok THEN r.err
       ELSE IF ~r.val
       THEN Raise("AttributeValidationError", <<"Value for ", name, " must be one of: ", PyStr(c.value)>>)
       ELSE NoError
  ELSE NoError

\* the for loop over the constraints from the i-th on
RECURSIVE check_constraints(_, _, _, _)
check_constraints(name, constraints, i, value) ==
  IF i > Len(constraints) THEN NoError
  ELSE LET e == check_constraint(name, constraints[i], value) IN
       IF e # NoError THEN e ELSE check_constraints(name, constraints, i + 1, value)

validate_attribute(catalog, name, value) ==
  IF name \notin DOMAIN catalog
  THEN Raised(Raise("AttributeValidationError", <<"Unknown attribute: ", name>>))
  ELSE LET definition == catalog[name]
           typed_value == IF IsInstance(value, definition.data_type) THEN Returned(value)
                          ELSE convert(definition.data_type, value)
       IN
       IF ~typed_value.ok
       THEN Raised(Raise("AttributeValidationError",
                         <<"Invalid type for ", name, ". Expected ", definition.data_type>>))
       ELSE LET e == check_constraints(name, definition.constraints, 1, typed_value.val) IN
            IF e # NoError THEN Raised(e) ELSE Returned(typed_value.val)

(***************************************************************************)
(* The function registry.  A registered callable is named by what it does: *)
(* the four built-ins, and "flag", a callable a caller registers, which    *)
(* takes no argument and returns True.                                     *)
(***************************************************************************)
BuiltinRegistry ==
  ("length" :> "len") @@ ("today" :> "today") @@ ("lowercase" :> "str.lower") @@
  ("uppercase" :> "str.upper")

ArityError(callable) == Raised(Raise("TypeError", <<callable, "() argument count">>))

\* callable(*args)
call(callable, args) ==
  IF callable = "len"
  THEN IF Len(args) # 1 THEN ArityError(callable)
       ELSE IF args[1].t = "str" THEN Returned(PyInt(Len(args[1].s)))
       ELSE IF args[1].t = "list" THEN Returned(PyInt(Len(args[1].items)))
       ELSE Raised(Raise("TypeError", <<"object of type '", args[1].t, "' has no len()">>))
  ELSE IF callable = "today"
  THEN IF Len(args) # 0 THEN ArityError(callable) ELSE Returned(Date)
  ELSE IF callable \in {"str.lower", "str.upper"}
  THEN IF Len(args) # 1 THEN ArityError(callable)
       ELSE IF args[1].t # "str"
       THEN Raised(Raise("TypeError", <<"descriptor requires a 'str' object but received a '", args[1].t, "'">>))
       ELSE Returned(Str(IF callable = "str.lower" THEN Lower(args[1].s) ELSE Upper(args[1].s)))
  ELSE IF Len(args) # 0 THEN ArityError(callable) ELSE Returned(Bool(TRUE))

(***************************************************************************)
(* evaluate_function and evaluate_rule: [ok, val, err, trace].  trace is   *)
(* the sequence of the calls made, in order: <<"evaluate_rule", type of    *)
(* the node>>, <<"validate_attribute", name>>, <<"call", function>>.       *)
(***************************************************************************)
Result(ok, val, err, trace) == [ok |-> ok, val |-> val, err |-> err, trace |-> trace]

\* Caught of a handler written `except RuleValidationError as e`
Caught_rule_errors_only(e) == e.kind = "RuleValidationError"

\* except Exception as e: the exception kinds of the model are all
\* subclasses of Exception
Caught(e) == e.kind \in {"RuleValidationError", "AttributeValidationError", "TypeError",
                         "AttributeError"}

\* raise RuleValidationError(f"Error evaluating rule: {str(e)}")
Wrap(e) ==
  [kind |-> "RuleValidationError", msg |-> <<"Error evaluating rule: ">> \o e.msg, origin |-> e.origin]

RECURSIVE evaluate_function(_, _, _), evaluate_args(_, _, _, _, _, _)
\* the for loop of evaluate_function from the i-th argument on, with
\* evaluated_args and the trace so far; then the call
evaluate_args(registry, node, data, i, evaluated_args, trace) ==
  IF i > Len(node.args)
  THEN LET r == call(registry[node.function], evaluated_args) IN
       Result(r.ok, r.val, r.err, Append(trace, <<"call", node.function>>))
  ELSE LET arg == node.args[i] IN
       IF IsNode(arg)
       THEN LET r == evaluate_function(registry, arg, data) IN
            IF ~r.ok THEN Result(FALSE, FALSE, r.err, trace \o r.trace)
            ELSE evaluate_args(registry, node, data, i + 1, Append(evaluated_args, r.val), trace \o r.trace)
       ELSE IF arg.t = "str" /\ arg.s \in DOMAIN data
       THEN evaluate_args(registry, node, data, i + 1, Append(evaluated_args, data[arg.s]), trace)
       ELSE evaluate_args(registry, node, data, i + 1, Append(evaluated_args, arg), trace)

evaluate_function(registry, node, data) ==
  IF node.function \notin DOMAIN registry
  THEN Result(FALSE, FALSE, Raise("RuleValidationError", <<"Unknown function: ", node.function>>), <<>>)
  ELSE evaluate_args(registry, node, data, 1, <<>>, <<>>)

\* the comparison of the validated value with node.value
compare(operator, value, node_value) ==
  IF operator = "GT" THEN PyLess(node_value, value)
  ELSE IF operator = "LT" THEN PyLess(value, node_value)
  ELSE IF operator = "EQ" THEN Returned(PyEq(value, node_value))
  ELSE IF operator = "NE" THEN Returned(~PyEq(value, node_value))
  ELSE IF operator = "GTE" THEN PyLessEq(node_value, value)
  ELSE IF operator = "LTE" THEN PyLessEq(value, node_value)
  ELSE IF operator = "IN" THEN PyIn(value, node_value)
  ELSE IF operator = "NOT_IN"
  THEN LET r == PyIn(value, node_value) IN IF r.ok THEN Returned(~r.val) ELSE r
  ELSE Returned(FALSE)

\* missing_attribute that does not read the required flag
missing_attribute_any_registered(catalog, field) ==
  IF field \in DOMAIN catalog
  THEN Result(FALSE, FALSE, Raise("AttributeValidationError", <<"Required attribute missing: ", field>>), <<>>)
  ELSE Result(TRUE, FALSE, NoError, <<>>)

\* the Comparison branch when node.field is not in data
missing_attribute(catalog, field) ==
  IF field \in DOMAIN catalog /\ catalog[field].required
  THEN Result(FALSE, FALSE, Raise("AttributeValidationError", <<"Required attribute missing: ", field>>), <<>>)
  ELSE Result(TRUE, FALSE, NoError, <<>>)

\* the Comparison branch of the try block
evaluate_comparison(catalog, node, data) ==
  IF node.field \notin DOMAIN data
  THEN missing_attribute(catalog, node.field)
  ELSE LET v == validate_attribute(catalog, node.field, data[node.field])
           called == <<<<"validate_attribute", node.field>>>>
       IN
       IF ~v.ok THEN Result(FALSE, FALSE, v.err, called)
       ELSE LET r == compare(node.operator, v.val, node.value) IN
            Result(r.ok, r.val, r.err, called)

\* left_result and right_result, left_result or right_result
logical(operator, left_result, right_result) ==
  IF operator = "AND" THEN left_result /\ right_result
  ELSE IF operator = "OR" THEN left_result \/ right_result
  ELSE FALSE

\* evaluate_operator that skips the right child when the left one decides
evaluate_operator_short_circuit(operator, left_result, right_result) ==
  IF ~left_result.ok THEN left_result
  ELSE IF left_result.val = (operator = "OR")
  THEN Result(TRUE, left_result.val, NoError, left_result.trace)
  ELSE IF ~right_result.ok
  THEN Result(FALSE, FALSE, right_result.err, left_result.trace \o right_result.trace)
  ELSE Result(TRUE, logical(operator, left_result.val, right_result.val), NoError,
              left_result.trace \o right_result.trace)

\* the LogicalOperator branch of the try block, given the outcome of
\* evaluate_rule on node.left and on node.right: the right one is not
\* looked at, as the call is not made, when the left one raised
evaluate_operator(operator, left_result, right_result) ==
  IF ~left_result.ok THEN left_result
  ELSE IF ~right_result.ok
  THEN Result(FALSE, FALSE, right_result.err, left_result.trace \o right_result.trace)
  ELSE Result(TRUE, logical(operator, left_result.val, right_result.val), NoError,
              left_result.trace \o right_result.trace)

\* the Function branch of the try block, given the outcome of
\* evaluate_function
function_branch(r) ==
  IF r.ok THEN Result(TRUE, Truthy(r.val), NoError, r.trace) ELSE r

\* the except clause, given the outcome of the try block
except_clause(node, body) ==
  IF ~body.ok /\ Caught(body.err)
  THEN Result(FALSE, FALSE, Wrap(body.err), <<<<"evaluate_rule", node.type>>>> \o body.trace)
  ELSE Result(body.ok, body.val, body.err, <<<<"evaluate_rule", node.type>>>> \o body.trace)

RECURSIVE evaluate_rule(_, _, _, _)
evaluate_rule(catalog, registry, node, data) ==
  except_clause(node,
    IF node.type = "NoneType"
    THEN Result(FALSE, FALSE,
                Raise("AttributeError", <<"'NoneType' object has no attribute 'type'">>), <<>>)
    ELSE IF node.type = "comparison" THEN evaluate_comparison(catalog, node, data)
    ELSE IF node.type = "operator"
    THEN evaluate_operator(node.operator,
                           evaluate_rule(catalog, registry, node.left, data),
                           evaluate_rule(catalog, registry, node.right, data))
    ELSE IF node.type = "function" THEN function_branch(evaluate_function(registry, node, data))
    ELSE Result(TRUE, FALSE, NoError, <<>>))


(***************************************************************************)
(* The engine and its caller.  attribute_catalog and function_registry are *)
(* the fields of the RuleEngine; rule_string is the text the caller has    *)
(* written so far (typed chunks of it), ast the Node the caller holds      *)
(* (returned by create_rule, or built by hand), data_record the record of  *)
(* the last evaluate_rule, result the outcome of the last call of          *)
(* create_rule, evaluate_rule or validate_attribute: [op, ok, val, err,    *)
(* trace], cleared by a registration.                                      *)
(***************************************************************************)
EmptyDict == [x \in {} |-> x]

NoResult == [op |-> "none", ok |-> TRUE, val |-> FALSE, err |-> NoError, trace |-> <<>>]

Outcome(op, ok, val, err, trace) == [op |-> op, ok |-> ok, val |-> val, err |-> err, trace |-> trace]

\* RuleEngine()
Init ==
  /\ attribute_catalog = EmptyDict
  /\ function_registry = BuiltinRegistry
  /\ rule_string = <<>>
  /\ typed = 0
  /\ ast = NoNode
  /\ data_record = EmptyDict
  /\ result = NoResult

\* engine.register_attribute(definition)
RegisterAttribute(definition) ==
  /\ attribute_catalog' = (definition.name :> definition) @@ attribute_catalog
  /\ result' = NoResult
  /\ UNCHANGED <<function_registry, rule_string, typed, ast, data_record>>

\* engine.register_function(name, func)
RegisterFunction(name, func) ==
  /\ function_registry' = (name :> func) @@ function_registry
  /\ result' = NoResult
  /\ UNCHANGED <<attribute_catalog, rule_string, typed, ast, data_record>>

\* the caller writes one more chunk of the rule string, before any rule is
\* created from it
TypeChunk(chunk) ==
  /\ typed < MaxChunks
  /\ ast = NoNode
  /\ result.op = "none"
  /\ rule_string' = rule_string \o chunk
  /\ typed' = typed + 1
  /\ UNCHANGED <<attribute_catalog, function_registry, ast, data_record, result>>

\* ast = engine.create_rule(rule_string); ast is not assigned when it raises
CreateRule ==
  /\ result.op # "create_rule"
  /\ LET r == create_rule(attribute_catalog, function_registry, rule_string) IN
     /\ result' = Outcome("create_rule", r.ok, r.node, r.err, <<>>)
     /\ ast' = IF r.ok THEN r.node ELSE ast
  /\ UNCHANGED <<attribute_catalog, function_registry, rule_string, typed, data_record>>

\* engine.evaluate_rule(ast, data)
EvaluateRule(d) ==
  /\ ast # NoNode
  /\ LET r == evaluate_rule(attribute_catalog, function_registry, ast, d) IN
     result' = Outcome("evaluate_rule", r.ok, r.val, r.err, r.trace)
  /\ data_record' = d
  /\ UNCHANGED <<attribute_catalog, function_registry, rule_string, typed, ast>>

\* engine.validate_attribute(name, value); data_record holds the argument
ValidateAttribute(name, value) ==
  /\ LET r == validate_attribute(attribute_catalog, name, value) IN
     result' = Outcome("validate_attribute", r.ok, r.val, r.err, <<>>)
  /\ data_record' = (name :> value)
  /\ UNCHANGED <<attribute_catalog, function_registry, rule_string, typed, ast>>

\* the number of LogicalOperator nodes of a tree
RECURSIVE OpCount(_)
OpCount(node) ==
  IF node.type = "operator" THEN 1 + OpCount(node.left) + OpCount(node.right) ELSE 0

\* the caller builds a Node by hand: a leaf
BuildLeaf(leaf) ==
  /\ ast = NoNode
  /\ ast' = leaf
  /\ result' = NoResult
  /\ UNCHANGED <<attribute_catalog, function_registry, rule_string, typed, data_record>>

\* the caller builds Node(type=OPERATOR, operator=, left=, right=) of the
\* Node it holds and a leaf
BuildOperator(operator, leaf, leaf_is_left) ==
  /\ ast # NoNode
  /\ OpCount(ast) < MaxOps
  /\ ast' = IF leaf_is_left THEN OperatorNode(operator, leaf, ast) ELSE OperatorNode(operator, ast, leaf)
  /\ result' = NoResult
  /\ UNCHANGED <<attribute_catalog, function_registry, rule_string, typed, data_record>>

(***************************************************************************)
(* Spec: the scenario of test_rule_engine.  The attributes of the test are *)
(* registered, rule strings are written from comparisons, AND, OR and      *)
(* parentheses, created and evaluated.                                     *)
(***************************************************************************)
AgeMin == 0

AgeMax == 120

AgeDefinition ==
  AttributeDefinition("age", "int", <<[key |-> "min", value |-> PyInt(AgeMin)],
                                      [key |-> "max", value |-> PyInt(AgeMax)]>>, TRUE)

DepartmentDefinition ==
  AttributeDefinition("department", "str",
                      <<[key |-> "enum", value |-> List(<<Str("Sales"), Str("Marketing"), Str("Engineering")>>)]>>,
                      TRUE)

\* age > 30
TextA == <<SP, W("age"), SP, W(">"), SP, W("30")>>

\* department = 'Sales'
TextB == <<SP, W("department"), SP, W("="), SP, SQ("Sales")>>

TextAnd == <<SP, W("AND")>>

TextOr == <<SP, W("OR")>>

ScenarioChunks == {TextA, TextB, TextAnd, TextOr, <<LP>>, <<RP>>}

ScenarioRecords ==
  { ("age" :> PyInt(35)) @@ ("department" :> Str("Sales")),
    ("age" :> PyInt(20)) @@ ("department" :> Str("Sales")),
    ("age" :> PyInt(35)) @@ ("department" :> Str("Support")),
    ("age" :> Str("35")) @@ ("department" :> Str("Sales")),
    ("age" :> PyInt(35)) }

\* the caller has registered the attributes of the test
SetupDone == DOMAIN attribute_catalog = {"age", "department"}

Next ==
  \/ \E definition \in {AgeDefinition, DepartmentDefinition} : ~SetupDone /\ RegisterAttribute(definition)
  \/ \E chunk \in ScenarioChunks : SetupDone /\ TypeChunk(chunk)
  \/ CreateRule
  \/ \E d \in ScenarioRecords : EvaluateRule(d)

Spec == Init /\ [][Next]_vars

(***************************************************************************)
(* SpecCalls: rule strings with a function call, a membership test and a   *)
(* float, with status registered or not.                                   *)
(***************************************************************************)
StatusDefinition == AttributeDefinition("status", "str", <<>>, TRUE)

\* length(name
TextLength == <<SP, W("length"), LP, W("name")>>

\* > 5
TextGreater5 == <<SP, W(">"), SP, W("5")>>

\* status IN ("active", "pending"
TextStatusIn == <<SP, W("status"), SP, W("IN"), SP, LP, DQ("active"), W(","), SP, DQ("pending")>>

\* age >= 2.5
TextFloat == <<SP, W("age"), SP, W(">="), SP, W("2.5")>>

CallChunks == {TextLength, TextGreater5, TextStatusIn, TextFloat, <<RP>>}

CallRecords ==
  { ("name" :> Str("Alexander")), ("name" :> Str("Bob")),
    ("status" :> Str("active")), ("status" :> Str("closed")), ("age" :> PyInt(2)) }

NextCalls ==
  \/ \E definition \in {StatusDefinition, AgeDefinition} : typed = 0 /\ RegisterAttribute(definition)
  \/ \E chunk \in CallChunks : TypeChunk(chunk)
  \/ CreateRule
  \/ \E d \in CallRecords : EvaluateRule(d)

SpecCalls == Init /\ [][NextCalls]_vars

(***************************************************************************)
(* The claims about create_rule and the scenarios.                         *)
(***************************************************************************)
NodeA == ComparisonNode("age", "GT", PyInt(30))

NodeB == ComparisonNode("department", "EQ", Str("Sales"))

\* age > 30 AND department = 'Sales'
ScenarioRule == TextA \o TextAnd \o TextB

ScenarioAst == OperatorNode("AND", NodeA, NodeB)

ScenarioCatalog ==
  /\ DOMAIN attribute_catalog = {"age", "department"}
  /\ attribute_catalog["age"] = AgeDefinition
  /\ attribute_catalog["department"] = DepartmentDefinition

Record(age, department) == ("age" :> age) @@ ("department" :> department)

\* the enum violation of department, as validate_attribute raises it
EnumViolation ==
  Raise("AttributeValidationError",
        <<"Value for ", "department", " must be one of: ", "['Sales', 'Marketing', 'Engineering']">>).origin

\* C1: with age (int, min 0, max 120) and department (str, enum) registered,
\* create_rule("age > 30 AND department = 'Sales'") returns AND(age > 30,
\* department = 'Sales'); evaluating it gives true on {35, Sales}, false on
\* {20, Sales}, and on {35, Support} fails with a RuleValidationError that
\* wraps the enum violation.
C1_Scenario ==
  (rule_string = ScenarioRule /\ ScenarioCatalog) =>
    /\ result.op = "create_rule" => result.ok /\ result.val = ScenarioAst /\ ast = ScenarioAst
    /\ result.op = "evaluate_rule" =>
         /\ ast = ScenarioAst
         /\ data_record = Record(PyInt(35), Str("Sales")) => result.ok /\ result.val = TRUE
         /\ data_record = Record(PyInt(20), Str("Sales")) => result.ok /\ result.val = FALSE
         /\ data_record = Record(PyInt(35), Str("Support")) =>
              /\ ~result.ok
              /\ result.err.kind = "RuleValidationError"
              /\ result.err.origin = EnumViolation

C1_Witness ==
  /\ rule_string = ScenarioRule
  /\ ScenarioCatalog
  /\ result.op = "evaluate_rule"
  /\ data_record = Record(PyInt(35), Str("Support"))
  /\ ~result.ok

C1_WitnessTrue ==
  /\ rule_string = ScenarioRule
  /\ result.op = "evaluate_rule"
  /\ data_record = Record(PyInt(35), Str("Sales"))
  /\ result.ok /\ result.val = TRUE

\* C2: create_rule("length(name) > 5") succeeds, and the rule evaluates to
\* true on {name: Alexander} and to false on {name: Bob}.
C2_LengthScenario ==
  (rule_string = TextLength \o <<RP>> \o TextGreater5) =>
    /\ result.op = "create_rule" => result.ok
    /\ (result.op = "evaluate_rule" /\ data_record = ("name" :> Str("Alexander"))) =>
         result.ok /\ result.val = TRUE
    /\ (result.op = "evaluate_rule" /\ data_record = ("name" :> Str("Bob"))) =>
         result.ok /\ result.val = FALSE

\* C3: with status registered as a string attribute,
\* create_rule('status IN ("active", "pending")') succeeds with a Comparison
\* whose value is the list, true on {status: active}, false on {status: closed}.
C3_MembershipScenario ==
  (rule_string = TextStatusIn \o <<RP>> /\ "status" \in DOMAIN attribute_catalog) =>
    /\ result.op = "create_rule" =>
         /\ result.ok
         /\ result.val = ComparisonNode("status", "IN", List(<<Str("active"), Str("pending")>>))
    /\ (result.op = "evaluate_rule" /\ data_record = ("status" :> Str("active"))) =>
         result.ok /\ result.val = TRUE
    /\ (result.op = "evaluate_rule" /\ data_record = ("status" :> Str("closed"))) =>
         result.ok /\ result.val = FALSE

\* the parentheses of a text from the i-th piece on, with `open` of them
\* open, are balanced
RECURSIVE TextBalanced(_, _, _)
TextBalanced(text, i, open) ==
  IF i > Len(text) THEN open = 0
  ELSE IF text[i].k = "lparen" THEN TextBalanced(text, i + 1, open + 1)
  ELSE IF text[i].k = "rparen" THEN open > 0 /\ TextBalanced(text, i + 1, open - 1)
  ELSE TextBalanced(text, i + 1, open)

\* C4: a rule string whose parentheses are unbalanced makes create_rule fail
\* with a RuleValidationError, and no AST is returned.
C4_UnbalancedRejected ==
  (result.op = "create_rule" /\ ~TextBalanced(rule_string, 1, 0)) =>
    ~result.ok /\ result.err.kind = "RuleValidationError" /\ ast = NoNode

\* C5: create_rule accepts parenthesized sub-expressions and nests the tree
\* as the parentheses group it: ((A)) is A, (A AND B) is AND(A, B).
C5_Parenthesized ==
  result.op = "create_rule" =>
    /\ rule_string = <<LP, LP>> \o TextA \o <<RP, RP>> => result.ok /\ result.val = NodeA
    /\ rule_string = <<LP>> \o TextA \o TextAnd \o TextB \o <<RP>> =>
         result.ok /\ result.val = ScenarioAst

\* the parentheses among the tokens from the i-th on are balanced
RECURSIVE TokensBalanced(_, _, _)
TokensBalanced(tokens, i, open) ==
  IF i > Len(tokens) THEN open = 0
  ELSE IF tokens[i] = Str("(") THEN TokensBalanced(tokens, i + 1, open + 1)
  ELSE IF tokens[i] = Str(")") THEN open > 0 /\ TokensBalanced(tokens, i + 1, open - 1)
  ELSE TokensBalanced(tokens, i + 1, open)

\* what create_rule returns when `passes` says its syntax check passes and
\* result holds its outcome on rule_string: one expression parsed at 0 and,
\* if AND or OR follows, one more, whatever tokens remain
OneCombination(passes) ==
  LET tokens == tokenize(rule_string).tokens
      first == parse_expression(attribute_catalog, function_registry, tokens, 0)
      more == first.ok /\ first.pos < Len(tokens) /\ tokens[first.pos + 1] \in {Str("AND"), Str("OR")}
      second == parse_expression(attribute_catalog, function_registry, tokens, first.pos + 1)
  IN
  (passes /\ first.ok /\ (more => second.ok)) =>
    /\ result.ok
    /\ result.val = IF more THEN OperatorNode(operators[tokens[first.pos + 1].s], first.node, second.node)
                    ELSE first.node

\* C10 as stated: whenever the parses succeed and the parenthesis check
\* passes, create_rule returns the AST, whatever tokens remain.
C10_ParenCheckOnly ==
  (result.op = "create_rule" /\ rule_string # <<>>) =>
    OneCombination(TokensBalanced(tokenize(rule_string).tokens, 1, 0))

\* C10 amended: whenever the parses succeed and validate_rule_syntax passes
\* (its parenthesis check and its operator check, which rejects a token list
\* whose last token is an operator token occurring nowhere before),
\* create_rule returns the AST, whatever tokens remain: A AND B OR A is
\* A AND B, A followed by A or B is A, and a returned AST has at most one
\* LogicalOperator node.
C10_TokensMayRemain ==
  (result.op = "create_rule" /\ rule_string # <<>>) =>
    /\ OneCombination(validate_rule_syntax(tokenize(rule_string).tokens) = NoError)
    /\ rule_string = ScenarioRule \o TextOr \o TextA => result.ok /\ result.val = ScenarioAst
    /\ rule_string \in {TextA \o TextB, TextA \o TextA, TextA \o TextB \o TextOr \o TextA} =>
         result.ok /\ result.val = NodeA
    /\ result.ok => OpCount(result.val) <= 1

C10_Witness ==
  /\ result.op = "create_rule"
  /\ rule_string = ScenarioRule \o TextOr \o TextA
  /\ result.ok
  /\ result.val = ScenarioAst

(***************************************************************************)
(* SpecEval: evaluate_rule on trees built by hand, over a catalog and a    *)
(* registry that registration changes.                                     *)
(***************************************************************************)
StatusOptional == AttributeDefinition("status", "str", <<>>, FALSE)

\* age > 30
LeafAge == ComparisonNode("age", "GT", PyInt(30))

\* age < 'Sales': an int against a str
LeafAgeStr == ComparisonNode("age", "LT", Str("Sales"))

\* nickname = 'x': no definition of the model registers nickname
LeafNickname == ComparisonNode("nickname", "EQ", Str("x"))

\* status IN ['active', 'pending']
LeafStatus == ComparisonNode("status", "IN", List(<<Str("active"), Str("pending")>>))

\* flag(): registered by the caller, or unknown
LeafFlag == FunctionNode("flag", <<>>)

\* length(age): len of the age of the record, which fails on an int
LeafLength == FunctionNode("length", <<Str("age")>>)

Leaves == {LeafAge, LeafAgeStr, LeafNickname, LeafStatus, LeafFlag, LeafLength}

EvalRecords ==
  { ("age" :> PyInt(35)) @@ ("status" :> Str("active")) @@ ("nickname" :> Str("x")),
    ("age" :> PyInt(20)),
    ("status" :> Str("closed")),
    ("age" :> PyInt(150)) @@ ("status" :> Str("closed")),
    ("age" :> Str("x")) }

\* the caller registers before it builds a tree
NextEval ==
  \/ \E definition \in {AgeDefinition, StatusOptional} : ast = NoNode /\ RegisterAttribute(definition)
  \/ ast = NoNode /\ RegisterFunction("flag", "flag")
  \/ \E leaf \in Leaves : BuildLeaf(leaf)
  \/ \E operator \in {"AND", "OR"}, leaf \in Leaves, leaf_is_left \in BOOLEAN :
       BuildOperator(operator, leaf, leaf_is_left)
  \/ \E d \in EvalRecords : EvaluateRule(d)

SpecEval == Init /\ [][NextEval]_vars

(***************************************************************************)
(* SpecValidate: validate_attribute, and evaluate_rule of a Comparison, on *)
(* an int attribute registered with min and max constraints.               *)
(***************************************************************************)
Min(v) == [key |-> "min", value |-> PyInt(v)]

Max(v) == [key |-> "max", value |-> PyInt(v)]

BoundRange == -1..MaxBound

ConstraintChoices ==
  {<<>>} \cup {<<Min(v)>> : v \in BoundRange} \cup {<<Max(v)>> : v \in BoundRange}
         \cup {<<Min(v), Max(w)>> : v, w \in BoundRange}
         \cup {<<Max(w), Min(v)>> : v, w \in BoundRange}

BoundDefinitions ==
  {AttributeDefinition("age", "int", cs, TRUE) : cs \in ConstraintChoices} \cup {AgeDefinition}

BoundValues ==
  {PyInt(v) : v \in (-2..(MaxBound + 1)) \cup {AgeMax - 1, AgeMax, AgeMax + 1}} \cup {Str("35"), Str("x")}

\* age >= 1
BoundLeaf == ComparisonNode("age", "GTE", PyInt(1))

NextValidate ==
  \/ \E definition \in BoundDefinitions : RegisterAttribute(definition)
  \/ \E value \in BoundValues : ValidateAttribute("age", value)
  \/ BuildLeaf(BoundLeaf)
  \/ \E value \in BoundValues : EvaluateRule(("age" :> value))

SpecValidate == Init /\ [][NextValidate]_vars

(***************************************************************************)
(* The claims about evaluate_rule and validate_attribute.                  *)
(***************************************************************************)
Entered(node) == <<<<"evaluate_rule", node.type>>>>

LeftResult == evaluate_rule(attribute_catalog, function_registry, ast.left, data_record)

RightResult == evaluate_rule(attribute_catalog, function_registry, ast.right, data_record)

\* the result of a LogicalOperator node whose children both return
Combined ==
  (LeftResult.ok /\ RightResult.ok) =>
    /\ result.ok
    /\ ast.operator = "AND" => (result.val <=> (LeftResult.val /\ RightResult.val))
    /\ ast.operator = "OR" => (result.val <=> (LeftResult.val \/ RightResult.val))

\* C6 as stated: evaluate_rule of a LogicalOperator node evaluates both
\* children, whatever the record, and combines two booleans by AND or OR.
C6_BothChildrenAlways ==
  (result.op = "evaluate_rule" /\ ast.type = "operator") =>
    /\ result.trace = Entered(ast) \o LeftResult.trace \o RightResult.trace
    /\ Combined

\* C6 amended: evaluate_rule of a LogicalOperator node evaluates the left
\* child and, unless the left child fails, the right child too, whatever the
\* left child returned; a failure of the right child fails the node; two
\* booleans are combined by AND or OR.  When the left child fails the right
\* child is not evaluated.
C6_NoShortCircuit ==
  (result.op = "evaluate_rule" /\ ast.type = "operator") =>
    /\ LeftResult.ok => result.trace = Entered(ast) \o LeftResult.trace \o RightResult.trace
    /\ ~LeftResult.ok => result.trace = Entered(ast) \o LeftResult.trace /\ ~result.ok
    /\ (LeftResult.ok /\ ~RightResult.ok) => ~result.ok
    /\ Combined

\* the left child decides the AND, and the call of the right child is made
C6_Witness ==
  /\ result.op = "evaluate_rule"
  /\ ast = OperatorNode("AND", LeafAge, LeafFlag)
  /\ data_record = ("age" :> PyInt(20))
  /\ result.ok /\ result.val = FALSE
  /\ result.trace = <<<<"evaluate_rule", "operator">>, <<"evaluate_rule", "comparison">>,
                      <<"validate_attribute", "age">>, <<"evaluate_rule", "function">>,
                      <<"call", "flag">>>>

\* s is the end of t
IsSuffix(s, t) == Len(s) <= Len(t) /\ SubSeq(t, Len(t) - Len(s) + 1, Len(t)) = s

\* C7: a failure inside evaluate_rule leaves it as a RuleValidationError
\* whose message is "Error evaluating rule: ", once per evaluate_rule call
\* it went through, followed by the message of the original failure.
C7_ErrorCollapse ==
  (result.op = "evaluate_rule" /\ ~result.ok) =>
    /\ result.err.kind = "RuleValidationError"
    /\ result.err.origin.kind \in {"AttributeValidationError", "RuleValidationError", "TypeError"}
    /\ result.err.origin.msg # <<>>
    /\ IsSuffix(result.err.origin.msg, result.err.msg)
    /\ Len(result.err.msg) > Len(result.err.origin.msg)
    /\ \A i \in 1..(Len(result.err.msg) - Len(result.err.origin.msg)) :
         result.err.msg[i] = "Error evaluating rule: "

\* an attribute error raised two evaluate_rule calls deep
C7_Witness ==
  /\ result.op = "evaluate_rule"
  /\ ~result.ok
  /\ result.err.kind = "RuleValidationError"
  /\ result.err.origin.kind = "AttributeValidationError"
  /\ Len(result.err.msg) = Len(result.err.origin.msg) + 2

\* C8: a Comparison whose field is not in the record fails with the
\* attribute error "Required attribute missing" (wrapped by evaluate_rule)
\* if the field is registered and required, and otherwise returns false
\* without an error and without a call of validate_attribute.
C8_MissingField ==
  (result.op = "evaluate_rule" /\ ast.type = "comparison" /\ ast.field \notin DOMAIN data_record) =>
    IF ast.field \in DOMAIN attribute_catalog /\ attribute_catalog[ast.field].required
    THEN /\ ~result.ok
         /\ result.err.origin = [kind |-> "AttributeValidationError",
                                 msg |-> <<"Required attribute missing: ", ast.field>>]
         /\ result.err.msg = <<"Error evaluating rule: ", "Required attribute missing: ", ast.field>>
    ELSE /\ result.ok
         /\ result.val = FALSE
         /\ result.trace = Entered(ast)

C8_Witness ==
  /\ result.op = "evaluate_rule"
  /\ ast = LeafAge
  /\ "age" \notin DOMAIN data_record
  /\ "age" \in DOMAIN attribute_catalog
  /\ ~result.ok

C8_WitnessOptional ==
  /\ result.op = "evaluate_rule"
  /\ ast = LeafStatus
  /\ "status" \notin DOMAIN data_record
  /\ "status" \in DOMAIN attribute_catalog
  /\ result.ok /\ result.val = FALSE

\* v is below a min or above a max of the constraints
OutOfBounds(constraints, v) ==
  \E i \in 1..Len(constraints) :
    \/ constraints[i].key = "min" /\ v < constraints[i].value.n
    \/ constraints[i].key = "max" /\ v > constraints[i].value.n

\* age is registered as an int with min and max constraints only, and the
\* value given for it is an int
BoundCase ==
  /\ "age" \in DOMAIN attribute_catalog
  /\ "age" \in DOMAIN data_record
  /\ data_record["age"].t = "int"

\* C9: validate_attribute rejects an int v with an attribute error iff
\* v < min or v > max, and returns v otherwise, the bounds included; so does
\* the evaluation of a Comparison on the attribute.  For age in 0..120: -1
\* and 121 are rejected, 0 and 120 accepted.
C9_InclusiveBounds ==
  BoundCase =>
    LET v == data_record["age"].n
        out == OutOfBounds(attribute_catalog["age"].constraints, v)
    IN
    /\ result.op = "validate_attribute" =>
         /\ ~result.ok <=> out
         /\ ~result.ok => result.err.kind = "AttributeValidationError"
         /\ result.ok => result.val = PyInt(v)
         /\ attribute_catalog["age"] = AgeDefinition => (result.ok <=> v \in AgeMin..AgeMax)
    /\ result.op = "evaluate_rule" =>
         /\ ~result.ok <=> out
         /\ ~result.ok => result.err.origin.kind = "AttributeValidationError"
         /\ result.ok => (result.val <=> v >= 1)

\* the upper bound itself is accepted
C9_Witness ==
  /\ result.op = "validate_attribute"
  /\ attribute_catalog = ("age" :> AgeDefinition)
  /\ data_record = ("age" :> PyInt(AgeMax))
  /\ result.ok
  /\ result.val = PyInt(AgeMax)
====
